---- MODULE Spec2Model ----
(***************************************************************************)
(* ndb/context.py: AutoBatcher and Context (get / put / delete,            *)
(* map_query, transaction) running as cooperative tasks on the event loop. *)
(*                                                                         *)
(* The program state is carried through the handlers as one record `s`     *)
(* (state-passing style), so that a handler that calls another one         *)
(* (flush -> _callback, get -> add, _rpc_callback -> set_result) is one    *)
(* atomic step, exactly as a task runs to its next yield.                  *)
(***************************************************************************)
EXTENDS Integers, Sequences, FiniteSets, TLC

VARIABLES
  todo,      \* AutoBatcher._todo      : batcher -> Seq([fut, arg])
  running,   \* AutoBatcher._running   : batcher -> set of Futures
  cache,     \* Context._cache         : context -> (dict) key -> entity | None
  policy,    \* Context._cache_policy  : context -> policy name
  delayed,   \* event loop: callbacks queued with delay 0, FIFO
  ready,     \* event loop: tasks queued at time None, FIFO
  rpcs,      \* event loop: batched RPCs in flight (queue_rpc)
  futs,      \* tasks.Future objects   : id -> [st, val]
  tasks,     \* generator tasks        : id (= id of its own Future) -> frame
  nextFut,   \* next unused Future id
  conn,      \* calls seen by the Connection / the user callback (counters)
  lastop,    \* history: per (context, key) the last resolved put/delete and
             \* the kind of operation that last wrote the cache entry
  mq         \* map_query: the batches received, the entities visited, the MultiFuture

vars == <<todo, running, cache, policy, delayed, ready, rpcs, futs, tasks,
          nextFut, conn, lastop, mq>>

-----------------------------------------------------------------------------
(* Bounds of the model *)

MaxAdds == 3
MaxFlush == 1
MaxFlushAdds == 2
MaxOps == 3
MaxCbOps == 2

Keys == {"k1", "k2"}
Vals == {1, 2}

-----------------------------------------------------------------------------
(* Values: every Python value that travels through a Future is a record.   *)

None == [key |-> "None", val |-> 0]
Ent(k, v) == [key |-> k, val |-> v]
KeyOf(k) == [key |-> k, val |-> 0]
Err(name) == [key |-> name, val |-> -1]

Entities == {Ent(k, v) : k \in Keys, v \in Vals}

Pending == [st |-> "pending", val |-> None]
Done(v) == [st |-> "done", val |-> v]
Failed(e) == [st |-> "failed", val |-> e]

\* A Python dict: {} and d[k] = v.
EmptyDict == [k \in {} |-> None]
DictSet(d, k, v) == [x \in DOMAIN d \cup {k} |-> IF x = k THEN v ELSE d[x]]

Self == 0
Kinds == {"get", "put", "delete"}
Batcher(c, kind) == <<c, kind>>

RECURSIVE SeqToSet(_)
SeqToSet(q) == IF q = <<>> THEN {} ELSE {Head(q)} \cup SeqToSet(Tail(q))

Count(x, q) == Cardinality({i \in 1..Len(q) : q[i] = x})

Args(td) == [i \in 1..Len(td) |-> td[i].arg]

-----------------------------------------------------------------------------
(* The state record and its commit to the primed variables.                *)

Cur ==
  [todo |-> todo, running |-> running, cache |-> cache, policy |-> policy,
   delayed |-> delayed, ready |-> ready, rpcs |-> rpcs, futs |-> futs,
   tasks |-> tasks, nextFut |-> nextFut, conn |-> conn, lastop |-> lastop,
   mq |-> mq]

\* (the record is evaluated once, then assigned field by field)
Commit(next) ==
  \E s \in {next} :
    /\ todo' = s.todo
    /\ running' = s.running
    /\ cache' = s.cache
    /\ policy' = s.policy
    /\ delayed' = s.delayed
    /\ ready' = s.ready
    /\ rpcs' = s.rpcs
    /\ futs' = s.futs
    /\ tasks' = s.tasks
    /\ nextFut' = s.nextFut
    /\ conn' = s.conn
    /\ lastop' = s.lastop
    /\ mq' = s.mq

-----------------------------------------------------------------------------
(* tasks.Future and the task primitive.                                    *)

\* Future(): a new pending future; its id is s.nextFut.
NewFuture(s) ==
  [s EXCEPT !.futs = @ @@ (s.nextFut :> Pending), !.nextFut = @ + 1]

\* The tasks a resolution of f makes runnable, in id order.
RECURSIVE Woken(_, _, _)
Woken(tk, f, ids) ==
  IF ids = {} THEN <<>>
  ELSE LET t == CHOOSE x \in ids : \A y \in ids : x <= y
       IN (IF tk[t].wait = {f} THEN <<t>> ELSE <<>>) \o Woken(tk, f, ids \ {t})

\* Future.set_result / set_exception: record the outcome and queue every
\* task whose last awaited future this was.
Resolve(s, f, outcome) ==
  [s EXCEPT !.futs[f] = outcome,
            !.ready = @ \o Woken(s.tasks, f, DOMAIN s.tasks),
            !.tasks = [t \in DOMAIN s.tasks |->
                         [s.tasks[t] EXCEPT !.wait = @ \ {f}]]]

set_result(s, f, v) == Resolve(s, f, Done(v))
set_exception(s, f, e) == Resolve(s, f, Failed(e))

\* `yield fs` in task t: suspend on the futures of fs that are still
\* pending; when none is, the task is queued again at once.
Await(s, t, fs, pc) ==
  LET pend == {f \in fs : s.futs[f].st = "pending"}
  IN [s EXCEPT !.tasks[t].pc = pc,
               !.tasks[t].aw = fs,
               !.tasks[t].wait = pend,
               !.ready = IF pend = {} THEN Append(@, t) ELSE @]

\* A frame of a task that is not yet started. (seen is history: the last
\* put or delete of the key that had resolved when a get was called.)
Frame(op, c, key, ent) ==
  [op |-> op, pc |-> "start", ctx |-> c, key |-> key, ent |-> ent,
   kind |-> "get", aw |-> {}, wait |-> {}, iter |-> {}, seen |-> 0,
   i |-> 0, retry |-> 0, sub |-> 0]

\* @tasks.task: calling a task function creates its Future and queues the
\* generator on the event loop (time None).
Spawn(s, frame) ==
  LET t == s.nextFut
      s1 == NewFuture(s)
  IN [s1 EXCEPT !.tasks = @ @@ (t :> frame), !.ready = Append(@, t)]

\* raise tasks.Return(v) / an exception leaving the generator.
Return(s, t, v) == set_result([s EXCEPT !.tasks[t].pc = "done"], t, v)
Raise(s, t, e) == set_exception([s EXCEPT !.tasks[t].pc = "done"], t, e)

-----------------------------------------------------------------------------
(* class AutoBatcher                                                       *)

\* mutant: every add schedules a callback
add_always_schedules(s, b, arg) ==
  LET fut == s.nextFut
      s1 == NewFuture(s)
  IN [s1 EXCEPT !.delayed = Append(@, b),
                !.todo[b] = Append(@, [fut |-> fut, arg |-> arg])]

\* mutant: add never schedules the callback
add_never_schedules(s, b, arg) ==
  LET fut == s.nextFut
      s1 == NewFuture(s)
  IN [s1 EXCEPT !.todo[b] = Append(@, [fut |-> fut, arg |-> arg])]

\* AutoBatcher.add: the returned future is s.nextFut.
add(s, b, arg) ==
  LET fut == s.nextFut
      s1 == NewFuture(s)
  IN [s1 EXCEPT !.delayed = IF s.todo[b] = <<>> THEN Append(@, b) ELSE @,
                !.todo[b] = Append(@, [fut |-> fut, arg |-> arg])]

\* mutant: the dispatched batch is not recorded in _running
_callback_untracked(s, b, values) ==
  IF s.todo[b] = <<>> THEN s
  ELSE LET run == s.nextFut
           s1 == NewFuture(s)
       IN [s1 EXCEPT !.rpcs = @ \cup {[b |-> b, todo |-> s.todo[b],
                                       running |-> run, values |-> values]},
                     !.todo[b] = <<>>]

\* mutant: the queue is not cleared after the dispatch
_callback_keeps_todo(s, b, values) ==
  IF s.todo[b] = <<>> THEN s
  ELSE LET run == s.nextFut
           s1 == NewFuture(s)
       IN [s1 EXCEPT !.running[b] = @ \cup {run},
                     !.rpcs = @ \cup {[b |-> b, todo |-> s.todo[b],
                                       running |-> run, values |-> values]}]

\* AutoBatcher._callback; values is what rpc.get_result() will return.
_callback(s, b, values) ==
  IF s.todo[b] = <<>> THEN s
  ELSE LET run == s.nextFut
           s1 == NewFuture(s)
       IN [s1 EXCEPT !.running[b] = @ \cup {run},
                     !.rpcs = @ \cup {[b |-> b, todo |-> s.todo[b],
                                       running |-> run, values |-> values]},
                     !.todo[b] = <<>>]

\* for (fut, arg), val in zip(todo, values): fut.set_result(val)
RECURSIVE SetResults(_, _, _)
SetResults(s, td, values) ==
  IF td = <<>> \/ values = <<>> THEN s
  ELSE SetResults(set_result(s, Head(td).fut, Head(values)), Tail(td), Tail(values))

\* for fut, arg in todo: fut.set_result(None)
RECURSIVE SetNone(_, _)
SetNone(s, td) ==
  IF td = <<>> THEN s
  ELSE SetNone(set_result(s, Head(td).fut, None), Tail(td))

\* mutant: the results are handed out in reverse order
_rpc_callback_reversed(s, rpc) ==
  LET s1 == set_result(s, rpc.running, None)
      s2 == [s1 EXCEPT !.running[rpc.b] = @ \ {rpc.running},
                       !.rpcs = @ \ {rpc}]
      n == Len(rpc.values.list)
  IN IF rpc.values.none THEN SetNone(s2, rpc.todo)
     ELSE SetResults(s2, rpc.todo, [i \in 1..n |-> rpc.values.list[n + 1 - i]])

\* AutoBatcher._rpc_callback(rpc, todo, running)
\* (When rpc.get_result() raises, the exception leaves the callback; conn.failed
\* is history: the futures of the batches this happened to.)
_rpc_callback(s, rpc) ==
  LET s1 == set_result(s, rpc.running, None)
      s2 == [s1 EXCEPT !.running[rpc.b] = @ \ {rpc.running},
                       !.rpcs = @ \ {rpc}]
  IN IF rpc.values.raises
       THEN [s2 EXCEPT !.conn.failed = @ \cup {x.fut : x \in SeqToSet(rpc.todo)}]
     ELSE IF rpc.values.none THEN SetNone(s2, rpc.todo)
     ELSE SetResults(s2, rpc.todo, rpc.values.list)

\* mutant: flush returns once the queue is empty, without waiting for
\* the batches in flight
flush_ignores_running(s, t, r, values) ==
  LET b == Batcher(s.tasks[t].ctx, s.tasks[t].kind)
  IN IF s.todo[b] = <<>> THEN Return(s, t, None)
     ELSE Await(_callback(s, b, values), t, {}, "loop")

\* AutoBatcher.flush, one step of the task: from its start or from a yield
\* to the next yield or to its end. iter is what is left of
\* frozenset(self._running) in the for loop; r is the member the loop
\* takes next.
flush(s, t, r, values) ==
  LET b == Batcher(s.tasks[t].ctx, s.tasks[t].kind)
      iter == s.tasks[t].iter
  IN IF iter # {}
       THEN Await([s EXCEPT !.tasks[t].iter = iter \ {r}], t, {r}, "loop")
     ELSE IF s.todo[b] = <<>> /\ s.running[b] = {}
       THEN Return(s, t, None)
     ELSE LET s1 == IF s.todo[b] # <<>> THEN _callback(s, b, values) ELSE s
              snap == s1.running[b]
          IN Await([s1 EXCEPT !.tasks[t].iter = snap \ {r}], t, {r}, "loop")

\* The members the for loop of flush may take next.
FlushNext(s, t) ==
  LET b == Batcher(s.tasks[t].ctx, s.tasks[t].kind)
  IN IF s.tasks[t].iter # {} THEN s.tasks[t].iter
     ELSE IF s.todo[b] # <<>> THEN s.running[b] \cup {s.nextFut}
     ELSE IF s.running[b] # {} THEN s.running[b]
     ELSE {0}

-----------------------------------------------------------------------------
(* The Connection's batched RPCs: what rpc.get_result() can return.        *)

NoValues == [none |-> TRUE, list |-> <<>>, raises |-> FALSE]
Values(l) == [none |-> FALSE, list |-> l, raises |-> FALSE]

\* rpc.get_result() raises: the batched RPC failed.
Raising == [none |-> FALSE, list |-> <<>>, raises |-> TRUE]
RpcError == Err("RpcError")

NewKey == "new"
AllocatedKey == "k2"

\* async_get: for each key the stored entity or None.
GetResults(td) ==
  {Values(l) : l \in {l \in [1..Len(td) -> Entities \cup {None}] :
        \A i \in 1..Len(td) : l[i] = None \/ l[i].key = td[i].arg.key}}

\* async_put: for each entity its key, allocated when the key is incomplete.
PutResults(td) ==
  {Values([i \in 1..Len(td) |->
      KeyOf(IF td[i].arg.key = NewKey THEN AllocatedKey ELSE td[i].arg.key)])}

\* async_delete: None.
DeleteResults(td) == {NoValues}

BackendResults(b, td) ==
  IF b[2] = "get" THEN GetResults(td)
  ELSE IF b[2] = "put" THEN PutResults(td)
  ELSE DeleteResults(td)

-----------------------------------------------------------------------------
(* The event loop and the application's direct use of an AutoBatcher.      *)

IsHead(t, op) ==
  /\ ready # <<>>
  /\ Head(ready) = t
  /\ tasks[t].op = op

Pop == [Cur EXCEPT !.ready = Tail(@)]

\* The event loop runs the callback at the head of the delay-0 queue once
\* no task is runnable.
run_callback ==
  /\ ready = <<>>
  /\ delayed # <<>>
  /\ \E values \in BackendResults(Head(delayed), todo[Head(delayed)]) :
       Commit(_callback([Cur EXCEPT !.delayed = Tail(@)], Head(delayed), values))

\* The same, for a batched RPC that is going to fail.
run_callback_failing ==
  /\ ready = <<>>
  /\ delayed # <<>>
  /\ Commit(_callback([Cur EXCEPT !.delayed = Tail(@)], Head(delayed), Raising))

\* The transport signals the completion of a batched RPC.
run_rpc ==
  \E rpc \in rpcs : Commit(_rpc_callback(Cur, rpc))

\* The event loop runs the next step of a flush task.
run_flush ==
  \E t \in DOMAIN tasks :
    /\ IsHead(t, "flush")
    /\ LET b == Batcher(tasks[t].ctx, tasks[t].kind)
       IN \E r \in FlushNext(Pop, t) :
            \E values \in BackendResults(b, todo[b]) :
              Commit(flush(Pop, t, r, values))

\* The application calls batcher.add(arg) itself.
app_add(kinds, keys, max) ==
  /\ conn.calls < max
  /\ \E kind \in kinds : \E k \in keys :
       Commit(add([Cur EXCEPT !.conn.calls = @ + 1], Batcher(Self, kind), KeyOf(k)))

\* The application calls batcher.flush().
app_flush(kinds) ==
  /\ conn.flushes < MaxFlush
  /\ \E kind \in kinds :
       Commit(Spawn([Cur EXCEPT !.conn.flushes = @ + 1],
                    [Frame("flush", Self, "None", None) EXCEPT !.kind = kind]))

-----------------------------------------------------------------------------
(* Initial state: one Context, nothing queued.                             *)

NoConn == [calls |-> 0, flushes |-> 0, pending |-> {}, begin |-> 0,
           commit |-> <<>>, rollback |-> <<>>, callback |-> 0, merge |-> 0,
           failed |-> {}]

NoMq == [pages |-> <<>>, visited |-> <<>>, values |-> <<>>,
         deps |-> {}, complete |-> FALSE]

InitBatch ==
  /\ todo = [b \in {Self} \X Kinds |-> <<>>]
  /\ running = [b \in {Self} \X Kinds |-> {}]
  /\ cache = (Self :> EmptyDict)
  /\ policy = (Self :> "None")
  /\ delayed = <<>>
  /\ ready = <<>>
  /\ rpcs = {}
  /\ futs = <<>>
  /\ tasks = <<>>
  /\ nextFut = 1
  /\ conn = NoConn
  /\ lastop = (Self :> EmptyDict)
  /\ mq = NoMq

NextAdd == app_add({"get", "delete"}, Keys, MaxAdds) \/ run_callback \/ run_rpc

SpecAdd == InitBatch /\ [][NextAdd]_vars

\* Batched RPCs may fail.
NextFail ==
  \/ app_add({"get", "delete"}, Keys, MaxAdds)
  \/ run_callback
  \/ run_callback_failing
  \/ run_rpc

SpecFail == InitBatch /\ [][NextFail]_vars

NextBatch ==
  \/ app_add({"get", "delete"}, Keys, MaxAdds)
  \/ app_flush({"get", "delete"})
  \/ run_callback
  \/ run_rpc
  \/ run_flush

SpecBatch == InitBatch /\ [][NextBatch]_vars

\* One step of the event loop.
run0 == run_callback \/ run_rpc \/ run_flush

\* One batcher (delete), with an event loop that keeps running while it has
\* a task, a callback or a completed RPC to run.
NextFlush ==
  \/ app_add({"delete"}, {"k1"}, MaxFlushAdds)
  \/ app_flush({"delete"})
  \/ run_callback
  \/ run_rpc
  \/ run_flush

SpecFlush == InitBatch /\ [][NextFlush]_vars

SpecFlushFair ==
  /\ InitBatch
  /\ [][NextFlush]_vars
  /\ WF_vars(run0)

-----------------------------------------------------------------------------
(* class Context: get, put, delete                                         *)

\* A cache policy function, by name.
PolicyAccepts(name, key, entity) ==
  IF name = "live_only" THEN entity # None ELSE key # "k2"

\* Context.should_cache
should_cache(s, c, key, entity) ==
  IF s.policy[c] = "None" THEN TRUE
  ELSE PolicyAccepts(s.policy[c], key, entity)

\* The value the last yield of task t produced (one awaited future).
Sent(s, t) == s.futs[CHOOSE f \in s.tasks[t].aw : TRUE].val

\* History of the cache entry of key k in context c.
NoOp == [pd |-> 0, by |-> "none"]
LastOp(lo, c, k) == IF k \in DOMAIN lo[c] THEN lo[c][k] ELSE NoOp
Wrote(s, c, k, by) ==
  [s EXCEPT !.lastop[c] = DictSet(@, k, [LastOp(s.lastop, c, k) EXCEPT !.by = by])]
Resolved(s, c, k, t) ==
  [s EXCEPT !.lastop[c] = DictSet(@, k, [LastOp(s.lastop, c, k) EXCEPT !.pd = t])]

\* self._cache[key] = value, done by an operation of kind `by`.
CacheSet(s, c, k, v, by) ==
  Wrote([s EXCEPT !.cache[c] = DictSet(@, k, v)], c, k, by)

\* mutant: get never looks into the cache
get_uncached(s, t) ==
  LET c == s.tasks[t].ctx
      key == s.tasks[t].key
  IN IF s.tasks[t].pc = "start"
       THEN Await(add(s, Batcher(c, "get"), KeyOf(key)), t, {s.nextFut}, "got")
     ELSE LET entity == Sent(s, t)
              s1 == IF should_cache(s, c, key, entity)
                      THEN CacheSet(s, c, key, entity, "get") ELSE s
          IN Return(s1, t, entity)

\* mutant: get does not store the fetched entity in the cache
get_no_store(s, t) ==
  LET c == s.tasks[t].ctx
      key == s.tasks[t].key
  IN IF s.tasks[t].pc = "start"
       THEN IF key \in DOMAIN s.cache[c]
              THEN Return(s, t, s.cache[c][key])
              ELSE Await(add(s, Batcher(c, "get"), KeyOf(key)), t, {s.nextFut}, "got")
     ELSE Return(s, t, Sent(s, t))

\* Context.get, one step of the task.
get(s, t) ==
  LET c == s.tasks[t].ctx
      key == s.tasks[t].key
  IN IF s.tasks[t].pc = "start"
       THEN IF key \in DOMAIN s.cache[c]
              THEN Return(s, t, s.cache[c][key])
              ELSE Await(add(s, Batcher(c, "get"), KeyOf(key)), t, {s.nextFut}, "got")
     ELSE LET entity == Sent(s, t)
              s1 == IF should_cache(s, c, key, entity)
                      THEN CacheSet(s, c, key, entity, "get") ELSE s
          IN Return(s1, t, entity)

\* The entity of a put once entity.key = key has been done.
Keyed(entity, key) == IF entity.key # key THEN [entity EXCEPT !.key = key] ELSE entity

\* Context.put, one step of the task.
put(s, t) ==
  LET c == s.tasks[t].ctx
      entity == s.tasks[t].ent
  IN IF s.tasks[t].pc = "start"
       THEN Await(add(s, Batcher(c, "put"), entity), t, {s.nextFut}, "got")
     ELSE LET key == Sent(s, t).key
              e1 == Keyed(entity, key)
              s1 == [s EXCEPT !.tasks[t].ent = e1]
              s2 == IF should_cache(s1, c, key, e1)
                      THEN CacheSet(s1, c, key, e1, "put") ELSE s1
          IN Return(Resolved(s2, c, key, t), t, KeyOf(key))

\* mutant: delete removes the cache entry instead of writing a tombstone
delete_removes(s, t) ==
  LET c == s.tasks[t].ctx
      key == s.tasks[t].key
  IN IF s.tasks[t].pc = "start"
       THEN Await(add(s, Batcher(c, "delete"), KeyOf(key)), t, {s.nextFut}, "got")
     ELSE LET s1 == [s EXCEPT !.cache[c] =
                       [x \in DOMAIN s.cache[c] \ {key} |-> s.cache[c][x]]]
          IN Return(Resolved(Wrote(s1, c, key, "delete"), c, key, t), t, None)

\* mutant: delete writes the tombstone whether or not the key is cached
delete_always_tombstones(s, t) ==
  LET c == s.tasks[t].ctx
      key == s.tasks[t].key
  IN IF s.tasks[t].pc = "start"
       THEN Await(add(s, Batcher(c, "delete"), KeyOf(key)), t, {s.nextFut}, "got")
     ELSE Return(Resolved(CacheSet(s, c, key, None, "delete"), c, key, t), t, None)

\* Context.delete, one step of the task.
delete(s, t) ==
  LET c == s.tasks[t].ctx
      key == s.tasks[t].key
  IN IF s.tasks[t].pc = "start"
       THEN Await(add(s, Batcher(c, "delete"), KeyOf(key)), t, {s.nextFut}, "got")
     ELSE LET s1 == IF key \in DOMAIN s.cache[c]
                      THEN CacheSet(s, c, key, None, "delete") ELSE s
          IN Return(Resolved(s1, c, key, t), t, None)

\* The event loop runs the next step of a get / put / delete task.
run_get == \E t \in DOMAIN tasks : IsHead(t, "get") /\ Commit(get(Pop, t))
run_put == \E t \in DOMAIN tasks : IsHead(t, "put") /\ Commit(put(Pop, t))
run_delete == \E t \in DOMAIN tasks : IsHead(t, "delete") /\ Commit(delete(Pop, t))

PutEntities == {Ent(k, v) : k \in Keys \cup {NewKey}, v \in Vals}

\* The application calls ctx.get(key), ctx.put(entity), ctx.delete(key).
Called(max) == [Cur EXCEPT !.conn.calls = @ + 1]

app_get(c, max) ==
  /\ conn.calls < max
  /\ \E k \in Keys :
       Commit(Spawn(Called(max), [Frame("get", c, k, None) EXCEPT
                                    !.seen = LastOp(lastop, c, k).pd]))

app_put(c, max) ==
  /\ conn.calls < max
  /\ \E e \in PutEntities : Commit(Spawn(Called(max), Frame("put", c, e.key, e)))

app_delete(c, max) ==
  /\ conn.calls < max
  /\ \E k \in Keys : Commit(Spawn(Called(max), Frame("delete", c, k, None)))

InitCtx ==
  /\ todo = [b \in {Self} \X Kinds |-> <<>>]
  /\ running = [b \in {Self} \X Kinds |-> {}]
  /\ cache = (Self :> EmptyDict)
  /\ policy = (Self :> "None")
  /\ delayed = <<>>
  /\ ready = <<>>
  /\ rpcs = {}
  /\ futs = <<>>
  /\ tasks = <<>>
  /\ nextFut = 1
  /\ conn = NoConn
  /\ lastop = (Self :> EmptyDict)
  /\ mq = NoMq

NextCtx ==
  \/ app_get(Self, MaxOps)
  \/ app_put(Self, MaxOps)
  \/ app_delete(Self, MaxOps)
  \/ run_get
  \/ run_put
  \/ run_delete
  \/ run_callback
  \/ run_rpc

SpecCtx == InitCtx /\ [][NextCtx]_vars

\* Conflicting requests (the TODO before Context.get): task A calls get(k1)
\* and task B calls delete(k1), k1 not cached. The same two calls are made
\* on two Contexts, so that two runs of them can be compared.
Contexts == {Self, 1}

InitConflict ==
  /\ todo = [b \in Contexts \X Kinds |-> <<>>]
  /\ running = [b \in Contexts \X Kinds |-> {}]
  /\ cache = [c \in Contexts |-> EmptyDict]
  /\ policy = [c \in Contexts |-> "None"]
  /\ delayed = <<>>
  /\ ready = <<1, 2, 3, 4>>
  /\ rpcs = {}
  /\ futs = <<Pending, Pending, Pending, Pending>>
  /\ tasks = <<Frame("get", Self, "k1", None), Frame("delete", Self, "k1", None),
               Frame("get", 1, "k1", None), Frame("delete", 1, "k1", None)>>
  /\ nextFut = 5
  /\ conn = NoConn
  /\ lastop = [c \in Contexts |-> EmptyDict]
  /\ mq = NoMq

NextConflict == run_get \/ run_delete \/ run_callback \/ run_rpc

SpecConflict == InitConflict /\ [][NextConflict]_vars

-----------------------------------------------------------------------------
(* Context.transaction                                                     *)

DefaultRetry == 3

TransactionFailedError == Err("TransactionFailedError")
CallbackError == Err("CallbackError")
Bool(b) == [key |-> "bool", val |-> IF b THEN 1 ELSE 0]
Handle(c) == [key |-> "transaction", val |-> c]
Max(a, b) == IF a > b THEN a ELSE b

\* The three batchers of a context, and the three flush() calls on them.
SpawnFlush(s, c, kind) == Spawn(s, [Frame("flush", c, "None", None) EXCEPT !.kind = kind])
FlushAll(s, c) == SpawnFlush(SpawnFlush(SpawnFlush(s, c, "get"), c, "put"), c, "delete")

\* yield conn.async_xxx(...): an RPC of its own on connection c; the task
\* is resumed with its result.
ConnRpc(s, t, kind, c, pc) ==
  LET f == s.nextFut
      s1 == NewFuture(s)
  IN Await([s1 EXCEPT !.conn.pending = @ \cup {[fut |-> f, kind |-> kind, c |-> c]}],
           t, {f}, pc)

\* Context.__init__ of the child: self.__class__(conn=tconn, ...)
NewContext(s, c) ==
  [s EXCEPT !.todo = [b \in {c} \X Kinds |-> <<>>] @@ @,
            !.running = [b \in {c} \X Kinds |-> {}] @@ @,
            !.cache = (c :> EmptyDict) @@ @,
            !.policy = (c :> "None") @@ @,
            !.lastop = (c :> EmptyDict) @@ @]

\* self._cache.update(tctx._cache)
RECURSIVE MarkMerged(_, _, _)
MarkMerged(s, c, ks) ==
  IF ks = {} THEN s
  ELSE LET k == CHOOSE x \in ks : TRUE
       IN MarkMerged(Wrote(s, c, k, "merge"), c, ks \ {k})

CacheUpdate(s, c, tc) ==
  LET child == s.cache[tc]
      mine == s.cache[c]
      s1 == [s EXCEPT !.cache[c] = [k \in DOMAIN mine \cup DOMAIN child |->
                                      IF k \in DOMAIN child THEN child[k] ELSE mine[k]],
                      !.conn.merge = @ + 1]
  IN MarkMerged(s1, c, DOMAIN child)

\* mutant: one attempt fewer, range(max(0, retry))
Attempts_off_by_one(retry) == Max(0, retry)

\* range(1 + max(0, retry))
Attempts(retry) == 1 + Max(0, retry)

\* Top of the for loop: the next attempt begins a transaction, or the
\* retries are used up.
txn_begin(s, t) ==
  IF s.tasks[t].i < Attempts(s.tasks[t].retry)
    THEN ConnRpc([s EXCEPT !.conn.begin = @ + 1], t, "begin", s.tasks[t].ctx, "begun")
    ELSE Raise(s, t, TransactionFailedError)

\* tconn, tctx, fut = callback(tctx); yield fut
txn_call(s, t) ==
  LET tc == Sent(s, t).val
      s1 == NewContext(s, tc)
      cb == s1.nextFut
      fn == IF s.tasks[t].key = "None" THEN "callback" ELSE "txn"
      s2 == Spawn([s1 EXCEPT !.conn.callback = @ + 1],
                  Frame(fn, tc, s.tasks[t].key, s.tasks[t].ent))
  IN Await([s2 EXCEPT !.tasks[t].sub = cb], t, {cb}, "called")

\* mutant: the attempt is concluded without flushing the child's batchers
txn_finally_no_flush(s, t) == Await(s, t, {}, "tflushed")

\* finally: flush the three batchers of tctx.
txn_finally(s, t) ==
  LET tc == s.tasks[s.tasks[t].sub].ctx
      f == s.nextFut
  IN Await(FlushAll(s, tc), t, {f, f + 1, f + 2}, "tflushed")

\* mutant: a failed callback is handled like a rejected commit
txn_conclude_retries(s, t) ==
  LET cb == s.tasks[t].sub
      tc == s.tasks[cb].ctx
  IN IF s.futs[cb].st = "failed"
       THEN txn_begin([s EXCEPT !.conn.rollback = Append(@, tc), !.tasks[t].i = @ + 1], t)
       ELSE ConnRpc([s EXCEPT !.conn.commit = Append(@, tc)], t, "commit", tc, "committed")

\* except: rollback and re-raise; else: commit.
txn_conclude(s, t) ==
  LET cb == s.tasks[t].sub
      tc == s.tasks[cb].ctx
  IN IF s.futs[cb].st = "failed"
       THEN ConnRpc([s EXCEPT !.conn.rollback = Append(@, tc)], t, "rollback", tc, "rolledback")
       ELSE ConnRpc([s EXCEPT !.conn.commit = Append(@, tc)], t, "commit", tc, "committed")

\* raise t, e, tb
txn_reraise(s, t) == Raise(s, t, s.futs[s.tasks[t].sub].val)

\* mutant: the child cache is merged whatever the commit reported
txn_committed_always_merges(s, t) ==
  LET cb == s.tasks[t].sub
      s1 == CacheUpdate(s, s.tasks[t].ctx, s.tasks[cb].ctx)
  IN IF Sent(s, t) = Bool(TRUE)
       THEN Return(s1, t, s.futs[cb].val)
       ELSE txn_begin([s1 EXCEPT !.tasks[t].i = @ + 1], t)

\* ok = yield tconn.async_commit(None); if ok: merge and return; else next i.
txn_committed(s, t) ==
  LET cb == s.tasks[t].sub
  IN IF Sent(s, t) = Bool(TRUE)
       THEN Return(CacheUpdate(s, s.tasks[t].ctx, s.tasks[cb].ctx), t, s.futs[cb].val)
       ELSE txn_begin([s EXCEPT !.tasks[t].i = @ + 1], t)

\* Context.transaction, one step of the task. (entity_group only selects
\* the app id passed to async_begin_transaction.)
transaction(s, t) ==
  LET pc == s.tasks[t].pc
      f == s.nextFut
  IN IF pc = "start"
       THEN Await(FlushAll(s, s.tasks[t].ctx), t, {f, f + 1, f + 2}, "flushed")
     ELSE IF pc = "flushed" THEN txn_begin(s, t)
     ELSE IF pc = "begun" THEN txn_call(s, t)
     ELSE IF pc = "called" THEN txn_finally(s, t)
     ELSE IF pc = "tflushed" THEN txn_conclude(s, t)
     ELSE IF pc = "rolledback" THEN txn_reraise(s, t)
     ELSE txn_committed(s, t)

\* The user's callback(tctx), a task: it calls get / put / delete on the
\* child context, waits for the call or not, and returns or fails.
CbOps ==
  {[op |-> "get", key |-> "k1", ent |-> None],
   [op |-> "delete", key |-> "k1", ent |-> None]}
    \cup {[op |-> "put", key |-> e.key, ent |-> e] : e \in {Ent(k, 2) : k \in Keys}}

Result(c) == [key |-> "result", val |-> c]

\* ctx.get(...), ctx.put(...), ctx.delete(...), one call after the other.
RECURSIVE SpawnAll(_, _, _)
SpawnAll(s, c, ops) ==
  IF ops = <<>> THEN s
  ELSE SpawnAll(Spawn(s, Frame(Head(ops).op, c, Head(ops).key, Head(ops).ent)),
                c, Tail(ops))

\* One step of the callback: it makes the calls ops, then waits for the
\* last of them, returns its result or fails.
callback(s, t, ops, how) ==
  LET tc == s.tasks[t].ctx
      s1 == SpawnAll([s EXCEPT !.tasks[t].i = @ + Len(ops)], tc, ops)
  IN IF how = "yield" THEN Await(s1, t, {s1.nextFut - 1}, "resumed")
     ELSE IF how = "return" THEN Return(s1, t, Result(tc))
     ELSE Raise(s1, t, CallbackError)

\* The calls a callback step may make when it may still make n calls.
CbCalls(n) == UNION {[1..m -> CbOps] : m \in 0..n}

\* The event loop runs the next step of the transaction task / the callback.
run_transaction ==
  \E t \in DOMAIN tasks : IsHead(t, "transaction") /\ Commit(transaction(Pop, t))

run_user_callback(maxops) ==
  \E t \in DOMAIN tasks :
    /\ IsHead(t, "callback")
    /\ \E ops \in CbCalls(Max(0, maxops - tasks[t].i)) :
         \E how \in IF ops = <<>> THEN {"return", "raise"}
                      ELSE {"yield", "return", "raise"} :
           Commit(callback(Pop, t, ops, how))

\* The transport signals the completion of begin / commit / rollback.
ConnResults(kind, c) ==
  IF kind = "begin" THEN {Handle(c)}
  ELSE IF kind = "commit" THEN {Bool(TRUE), Bool(FALSE)}
  ELSE {None}

run_conn_rpc ==
  \E r \in conn.pending :
    \E v \in ConnResults(r.kind, conn.begin) :
      Commit(set_result([Cur EXCEPT !.conn.pending = @ \ {r}], r.fut, v))

\* The caches a Context can hold after earlier gets of k1: the key is not
\* cached, a tombstone or the stored entity.
Dicts(d) == {f \in [d -> Entities \cup {None}] :
               \A k \in d : f[k] = None \/ f[k] = Ent(k, 1)}
ParentCaches == UNION {Dicts(d) : d \in SUBSET {"k1"}}

RetryArgs == {-1, 0, 1, DefaultRetry}

InitTxn(retries) ==
  /\ todo = [b \in {Self} \X Kinds |-> <<>>]
  /\ running = [b \in {Self} \X Kinds |-> {}]
  /\ \E d \in ParentCaches : cache = (Self :> d)
  /\ policy = (Self :> "None")
  /\ delayed = <<>>
  /\ ready = <<1>>
  /\ rpcs = {}
  /\ futs = <<Pending>>
  /\ \E r \in retries :
       tasks = <<[Frame("transaction", Self, "None", None) EXCEPT !.retry = r]>>
  /\ nextFut = 2
  /\ conn = NoConn
  /\ lastop = (Self :> EmptyDict)
  /\ mq = NoMq

NextTxn ==
  \/ run_transaction
  \/ run_user_callback(MaxCbOps)
  \/ run_conn_rpc
  \/ run_flush
  \/ run_get
  \/ run_put
  \/ run_delete
  \/ run_callback
  \/ run_rpc

SpecTxn == InitTxn({0}) /\ [][NextTxn]_vars

\* The retry loop alone: a callback that calls nothing on the child context.
NextRetry ==
  \/ run_transaction
  \/ run_user_callback(0)
  \/ run_conn_rpc
  \/ run_flush

SpecRetry == InitTxn(RetryArgs) /\ [][NextRetry]_vars

\* set_cache_policy(func) was called on the parent Context before
\* transaction(callback, retry=0); func rejects k2.
InitPolicy ==
  /\ todo = [b \in {Self} \X Kinds |-> <<>>]
  /\ running = [b \in {Self} \X Kinds |-> {}]
  /\ \E d \in ParentCaches : cache = (Self :> d)
  /\ policy = (Self :> "not_k2")
  /\ delayed = <<>>
  /\ ready = <<1>>
  /\ rpcs = {}
  /\ futs = <<Pending>>
  /\ tasks = <<Frame("transaction", Self, "None", None)>>
  /\ nextFut = 2
  /\ conn = NoConn
  /\ lastop = (Self :> EmptyDict)
  /\ mq = NoMq

SpecPolicy == InitPolicy /\ [][NextTxn]_vars

-----------------------------------------------------------------------------
(* Context.get_or_insert                                                   *)

\* The result of `yield fut` in task t, when fut has failed: the exception
\* is thrown into the generator.
Thrown(s, t) == s.futs[CHOOSE f \in s.tasks[t].aw : TRUE].st = "failed"

\* yield ctx.get(key) / ctx.put(ent) / self.transaction(txn) in task t.
Call(s, t, frame, pc) ==
  Await([Spawn(s, frame) EXCEPT !.tasks[t].sub = s.nextFut], t, {s.nextFut}, pc)

\* mutant: the callback puts the new entity without looking at what the
\* get inside the transaction returned
txn_always_puts(s, t) ==
  LET f == s.tasks[t]
  IN IF f.pc = "start"
       THEN Call(s, t, Frame("get", f.ctx, f.key, None), "got")
     ELSE IF Thrown(s, t) THEN Raise(s, t, Sent(s, t))
     ELSE IF f.pc = "got"
       THEN Call(s, t, Frame("put", f.ctx, f.key, f.ent), "put")
     ELSE Return(s, t, f.ent)

\* txn(ctx), the callback of get_or_insert, one step of the task; f.ent is
\* model_class(**kwds) with its key set.
txn(s, t) ==
  LET f == s.tasks[t]
  IN IF f.pc = "start"
       THEN Call(s, t, Frame("get", f.ctx, f.key, None), "got")
     ELSE IF Thrown(s, t) THEN Raise(s, t, Sent(s, t))
     ELSE IF f.pc = "got"
       THEN IF Sent(s, t) = None
              THEN Call(s, t, Frame("put", f.ctx, f.key, f.ent), "put")
              ELSE Return(s, t, Sent(s, t))
     ELSE Return(s, t, f.ent)

\* Context.get_or_insert, one step of the task.
get_or_insert(s, t) ==
  LET f == s.tasks[t]
  IN IF f.pc = "start"
       THEN Call(s, t, Frame("get", f.ctx, f.key, None), "got")
     ELSE IF Thrown(s, t) THEN Raise(s, t, Sent(s, t))
     ELSE IF f.pc = "got" /\ Sent(s, t) = None
       THEN Call(s, t, [Frame("transaction", f.ctx, f.key, f.ent) EXCEPT
                          !.retry = DefaultRetry], "inserted")
     ELSE Return(s, t, Sent(s, t))

run_get_or_insert ==
  \E t \in DOMAIN tasks :
    IsHead(t, "get_or_insert") /\ Commit(get_or_insert(Pop, t))

run_txn ==
  \E t \in DOMAIN tasks : IsHead(t, "txn") /\ Commit(txn(Pop, t))

\* ctx.get_or_insert(model_class, "k1", ...) has been called.
InitInsert ==
  /\ todo = [b \in {Self} \X Kinds |-> <<>>]
  /\ running = [b \in {Self} \X Kinds |-> {}]
  /\ \E d \in ParentCaches : cache = (Self :> d)
  /\ policy = (Self :> "None")
  /\ delayed = <<>>
  /\ ready = <<1>>
  /\ rpcs = {}
  /\ futs = <<Pending>>
  /\ tasks = <<Frame("get_or_insert", Self, "k1", Ent("k1", 2))>>
  /\ nextFut = 2
  /\ conn = NoConn
  /\ lastop = (Self :> EmptyDict)
  /\ mq = NoMq

NextInsert ==
  \/ run_get_or_insert
  \/ run_txn
  \/ run_transaction
  \/ run_conn_rpc
  \/ run_flush
  \/ run_get
  \/ run_put
  \/ run_callback
  \/ run_rpc

SpecInsert == InitInsert /\ [][NextInsert]_vars

\* Other tasks call get, put and delete on the parent Context while the
\* transaction runs.
MaxBusyOps == 1

NextBusy ==
  \/ run_transaction
  \/ run_user_callback(0)
  \/ run_conn_rpc
  \/ run_flush
  \/ app_get(Self, MaxBusyOps)
  \/ app_put(Self, MaxBusyOps)
  \/ app_delete(Self, MaxBusyOps)
  \/ run_get
  \/ run_put
  \/ run_delete
  \/ run_callback
  \/ run_rpc

SpecBusy == InitTxn({0}) /\ [][NextBusy]_vars

-----------------------------------------------------------------------------
(* Context.map_query                                                       *)

MaxPages == 2
MaxPageLen == 2
MaxQueryOps == 1

Absent == [key |-> "absent", val |-> 0]
Batch(i) == [key |-> "batch", val |-> i]
CountOf(n) == [key |-> "count", val |-> n]

\* self._cache.get(key), Absent when the key is not in the cache.
Cached(s, c, key) ==
  IF key \in DOMAIN s.cache[c] THEN s.cache[c][key] ELSE Absent

\* query.run_async(...) / batch.next_batch_async(...): a query RPC.
QueryRpc(s) ==
  [NewFuture(s) EXCEPT
     !.conn.pending = @ \cup {[fut |-> s.nextFut, kind |-> "query", c |-> Self]}]

\* mutant: the callback is given the queried entity, never the cached one
visit_fresh(s, t, ent, how) ==
  LET c == s.tasks[t].ctx
      key == ent.key
      was == Cached(s, c, key)
      seen == [fresh |-> ent, was |-> was, called |-> was # None,
               got |-> ent, before |-> s.tasks[t].i]
      s0 == [s EXCEPT !.mq.visited = Append(@, seen)]
  IN IF was = None THEN s0
     ELSE LET s1 == IF was = Absent /\ should_cache(s0, c, key, ent)
                      THEN CacheSet(s0, c, key, ent, "query")
                    ELSE s0
              s2 == [s1 EXCEPT !.tasks[t].i = @ + 1]
          IN IF how = "value"
               THEN [s2 EXCEPT !.mq.values = Append(@, ent)]
             ELSE IF how = "future"
               THEN [NewFuture(s2) EXCEPT !.mq.deps = @ \cup {s2.nextFut}]
             ELSE [s2 EXCEPT !.tasks[t].pc = "raised"]

\* The body of `for ent in batch.results`, for one entity; the callback
\* returns a plain value or a Future, or raises. (mq.visited is history:
\* the queried entity, the cache entry found, whether the callback was
\* called and with what, and the count before.)
visit(s, t, ent, how) ==
  LET c == s.tasks[t].ctx
      key == ent.key
      was == Cached(s, c, key)
      e == IF was \in {None, Absent} THEN ent ELSE was
      seen == [fresh |-> ent, was |-> was, called |-> was # None,
               got |-> e, before |-> s.tasks[t].i]
      s0 == [s EXCEPT !.mq.visited = Append(@, seen)]
  IN IF was = None THEN s0
     ELSE LET s1 == IF was = Absent /\ should_cache(s0, c, key, ent)
                      THEN CacheSet(s0, c, key, ent, "query")
                    ELSE s0
              s2 == [s1 EXCEPT !.tasks[t].i = @ + 1]
          IN IF how = "value"
               THEN [s2 EXCEPT !.mq.values = Append(@, e)]
             ELSE IF how = "future"
               THEN [NewFuture(s2) EXCEPT !.mq.deps = @ \cup {s2.nextFut}]
             ELSE [s2 EXCEPT !.tasks[t].pc = "raised"]

\* for ent in batch.results: ...; an exception of the callback ends it.
RECURSIVE visit_all(_, _, _, _)
visit_all(s, t, results, hows) ==
  IF results = <<>> \/ s.tasks[t].pc = "raised" THEN s
  ELSE visit_all(visit(s, t, Head(results), Head(hows)), t,
                 Tail(results), Tail(hows))

\* helper(): the driver task of map_query.
helper(s, t, hows) ==
  IF s.tasks[t].pc = "start"
    THEN Await(QueryRpc(s), t, {s.nextFut}, "batch")
  ELSE LET batch == s.mq.pages[Sent(s, t).val]
           s1 == IF batch.more THEN QueryRpc(s) ELSE s
           s2 == visit_all(s1, t, batch.results, hows)
       IN IF s2.tasks[t].pc = "raised" THEN Raise(s2, t, CallbackError)
          ELSE IF batch.more THEN Await(s2, t, {s.nextFut}, "batch")
          ELSE Return([s2 EXCEPT !.mq.complete = TRUE], t, CountOf(s2.tasks[t].i))

\* What the callback does with each entity of a batch.
Hows(n) == [1..n -> {"value", "future", "raise"}]

\* The event loop runs the next step of the driver task.
run_helper ==
  \E t \in DOMAIN tasks :
    /\ IsHead(t, "map_query")
    /\ \E hows \in IF tasks[t].pc = "start" THEN {<<>>}
                   ELSE Hows(Len(mq.pages[Sent(Cur, t).val].results)) :
         Commit(helper(Pop, t, hows))

\* The entities of the keys a query has not returned yet.
RECURSIVE Returned(_)
Returned(pages) ==
  IF pages = <<>> THEN {}
  ELSE {e.key : e \in SeqToSet(Head(pages).results)} \cup Returned(Tail(pages))

QueryResults(pages) ==
  {r \in UNION {[1..n -> Entities] : n \in 0..MaxPageLen} :
     /\ \A i \in 1..Len(r) : r[i].key \notin Returned(pages)
     /\ \A i, j \in 1..Len(r) : i # j => r[i].key # r[j].key}

\* The transport signals the completion of a query RPC: the next batch of
\* results, and whether more are to come.
run_query_rpc ==
  \E r \in conn.pending :
    /\ r.kind = "query"
    /\ \E results \in QueryResults(mq.pages) :
         \E more \in {m \in BOOLEAN : m => Len(mq.pages) + 1 < MaxPages} :
           Commit(set_result([Cur EXCEPT !.conn.pending = @ \ {r},
                                         !.mq.pages = Append(@, [results |-> results,
                                                                 more |-> more])],
                             r.fut, Batch(Len(mq.pages) + 1)))

\* The caches a Context can hold after earlier gets, puts and deletes.
QueryCaches == UNION {Dicts(d) : d \in SUBSET Keys}

\* map_query(query, callback) has been called: the driver task is queued.
InitQuery ==
  /\ todo = [b \in {Self} \X Kinds |-> <<>>]
  /\ running = [b \in {Self} \X Kinds |-> {}]
  /\ \E d \in QueryCaches : cache = (Self :> d)
  /\ \E p \in {"None", "not_k2"} : policy = (Self :> p)
  /\ delayed = <<>>
  /\ ready = <<1>>
  /\ rpcs = {}
  /\ futs = <<Pending>>
  /\ tasks = <<Frame("map_query", Self, "None", None)>>
  /\ nextFut = 2
  /\ conn = NoConn
  /\ lastop = (Self :> EmptyDict)
  /\ mq = NoMq

NextQuery ==
  \/ run_helper
  \/ run_query_rpc
  \/ app_put(Self, MaxQueryOps)
  \/ app_delete(Self, MaxQueryOps)
  \/ run_put
  \/ run_delete
  \/ run_callback
  \/ run_rpc

SpecQuery == InitQuery /\ [][NextQuery]_vars

-----------------------------------------------------------------------------
(* Properties of the AutoBatcher.                                          *)

\* The futures of a batch were created in the order of its sequence.
InOrder(td) == \A i, j \in 1..Len(td) : i < j => td[i].fut < td[j].fut

\* The batched RPCs issued by this step.
Issued == rpcs' \ rpcs

\* C1: with add calls and the event loop only (no explicit flush), a batcher
\* with queued items has exactly one flush callback scheduled, and the step
\* that issues a batched RPC issues exactly one, carrying the whole queue
\* in submission order and leaving the queue empty.
C1_OneBatchPerCycle ==
  /\ [](\A b \in DOMAIN todo :
          /\ todo[b] # <<>> => Count(b, delayed) = 1
          /\ InOrder(todo[b]))
  /\ [][\A rpc \in Issued :
          /\ Issued = {rpc}
          /\ rpc.todo = todo[rpc.b]
          /\ InOrder(rpc.todo)
          /\ todo'[rpc.b] = <<>>
          /\ delayed = <<rpc.b>> \o delayed']_vars

\* Three add calls of one turn are in flight as one batched get.
C1_Witness ==
  /\ nextFut = 5
  /\ delayed = <<>>
  /\ \E rpc \in rpcs :
       /\ rpcs = {rpc}
       /\ rpc.b = Batcher(Self, "get")
       /\ Args(rpc.todo) = <<KeyOf("k1"), KeyOf("k2"), KeyOf("k1")>>

\* C2: when the RPC of a batch of N pairs completes with an N-length list,
\* the i-th future of the batch is resolved with the i-th result.
C2_OrderPreserving ==
  [][\A rpc \in rpcs \ rpcs' :
       (~rpc.values.none /\ Len(rpc.values.list) = Len(rpc.todo)) =>
         \A i \in 1..Len(rpc.todo) :
           futs'[rpc.todo[i].fut] = Done(rpc.values.list[i])]_vars

\* A batch of two get requests has been resolved with two different values.
C2_Witness ==
  /\ rpcs = {}
  /\ 3 \in DOMAIN futs
  /\ futs[1] = Done(Ent("k1", 2))
  /\ futs[2] = Done(None)
  /\ futs[3].st = "done"

FlushOf(t) == Batcher(tasks[t].ctx, tasks[t].kind)

FlushTasks == {t \in DOMAIN tasks : tasks[t].op = "flush"}

\* C3: a flush task ends only in a step after which its batcher's queue and
\* running set are both empty, and every flush task that was called ends.
C3_FlushTerminatesEmpty ==
  /\ [][\A t \in FlushTasks :
          (tasks[t].pc # "done" /\ tasks'[t].pc = "done")
            => (todo'[FlushOf(t)] = <<>> /\ running'[FlushOf(t)] = {})]_vars
  /\ (\E t \in FlushTasks : tasks[t].pc # "done")
       ~> (\A t \in FlushTasks : tasks[t].pc = "done" /\ futs[t] = Done(None))

\* A flush that found items queued and a batch in flight has ended.
C3_Witness ==
  \E t \in DOMAIN tasks :
    /\ tasks[t].op = "flush"
    /\ tasks[t].pc = "done"
    /\ t > 2
    /\ nextFut > t + 1

\* C15 as claimed: while a batcher's queue is non-empty, at most one flush
\* callback of it is scheduled, also when flush() is called.
C15_AtMostOneCallback ==
  \A b \in DOMAIN todo : todo[b] # <<>> => Count(b, delayed) <= 1

\* C15 (amended): while a batcher's queue is non-empty at least one flush
\* callback of it is scheduled, and a step schedules a callback only when
\* it is an add that finds the queue empty, and then exactly one: an add on
\* a non-empty queue schedules none.
C15_ScheduledOnlyOnEmpty ==
  /\ [](\A b \in DOMAIN todo : todo[b] # <<>> => Count(b, delayed) >= 1)
  /\ [][\A b \in DOMAIN todo :
          IF todo[b] = <<>> /\ todo'[b] # <<>>
            THEN Count(b, delayed') = Count(b, delayed) + 1
            ELSE Count(b, delayed') <= Count(b, delayed)]_vars

\* flush() has dispatched a first item; the callback scheduled for it was
\* still queued when the next add scheduled another one.
C15_Witness ==
  \E b \in DOMAIN todo :
    /\ todo[b] # <<>>
    /\ Count(b, delayed) = 2
    /\ conn.flushes = 1

\* The batches of batcher b whose RPC has not completed.
InFlight(b) == {r \in rpcs : r.b = b}

\* C17 as claimed: a batcher never has more than one dispatched batch
\* whose RPC has not completed.
C17_AtMostOneOutstanding ==
  \A b \in DOMAIN running : Cardinality(running[b]) <= 1

\* C17 (amended): _running has exactly one pending future per dispatched
\* batch whose RPC has not completed, and no other member.
C17_RunningTracksBatches ==
  \A b \in DOMAIN running :
    /\ running[b] = {r.running : r \in InFlight(b)}
    /\ Cardinality(running[b]) = Cardinality(InFlight(b))
    /\ \A f \in running[b] : futs[f] = Pending

\* Two batches of one batcher are in flight.
C17_Witness ==
  \E b \in DOMAIN running : Cardinality(running[b]) = 2

\* The number of times future f is queued in a _todo or carried by a
\* batch in flight.
RECURSIVE Sum(_, _)
Sum(F, S) ==
  IF S = {} THEN 0
  ELSE LET x == CHOOSE y \in S : TRUE IN F[x] + Sum(F, S \ {x})

Held(f) ==
  Sum([b \in DOMAIN todo |->
         Cardinality({i \in 1..Len(todo[b]) : todo[b][i].fut = f})], DOMAIN todo)
    + Sum([r \in rpcs |->
             Cardinality({i \in 1..Len(r.todo) : r.todo[i].fut = f})], rpcs)

\* C19: a pair accepted by add is queued in one _todo or carried by one
\* batch in flight, never twice; the queue of a batcher changes only by an
\* add appending one new pair or by a dispatch that empties it, and every
\* step that issues a batched RPC issues one RPC that carries exactly the
\* queue of its batcher, which is not empty; a pair leaves a batch in flight
\* only when the RPC completes.
C19_NoLossNoDuplicate ==
  /\ [](/\ \A f \in DOMAIN futs : Held(f) <= 1
        /\ \A r \in rpcs : r.todo # <<>>)
  /\ [][/\ \A b \in DOMAIN todo :
            todo'[b] # todo[b] =>
              \/ /\ Len(todo'[b]) = Len(todo[b]) + 1
                 /\ SubSeq(todo'[b], 1, Len(todo[b])) = todo[b]
                 /\ todo'[b][Len(todo'[b])].fut = nextFut
                 /\ Issued = {}
              \/ /\ todo'[b] = <<>>
                 /\ \E r \in Issued : Issued = {r} /\ r.b = b
        /\ \A r \in Issued : r.todo = todo[r.b] /\ r.todo # <<>>
        /\ \A r \in rpcs \ rpcs' :
             \A i \in 1..Len(r.todo) : futs'[r.todo[i].fut].st = "done"]_vars

\* flush() has dispatched a batch of two pairs.
C19_Witness ==
  /\ \E r \in rpcs : Len(r.todo) = 2
  /\ delayed # <<>>
  /\ \E t \in FlushTasks : tasks[t].pc = "loop"

\* C11 as claimed: when rpc.get_result() has raised for a dispatched batch,
\* every future of that batch has failed with that error.
C11_BatchFailureFailsAll ==
  \A f \in conn.failed : futs[f] = Failed(RpcError)

-----------------------------------------------------------------------------
(* Properties of Context.get / put / delete.                               *)

\* Task t, a call of op, runs its first step in this step.
Starts(t, op) ==
  /\ tasks[t].op = op
  /\ tasks[t].pc = "start"
  /\ tasks'[t].pc # "start"

\* The step neither queues a request on a batcher nor issues an RPC.
NoRpc == todo' = todo /\ rpcs' = rpcs /\ delayed' = delayed

\* The last put or delete of t's key that resolved on t's context (0: none).
LastPd(t) == LastOp(lastop, tasks[t].ctx, tasks[t].key).pd

\* Get task t starts in this step; p, the last put or delete of its key to
\* resolve, had resolved when the get was called and is a call of op.
GetAfter(t, op) ==
  /\ Starts(t, "get")
  /\ LastPd(t) # 0
  /\ LastPd(t) = tasks[t].seen
  /\ tasks[LastPd(t)].op = op

\* The kind of operation that last wrote the cache entry of t's key.
LastBy(t) == LastOp(lastop, tasks[t].ctx, tasks[t].key).by

\* C4 as claimed: a get called after put(e) resolved, with no put or delete
\* of the key resolving in between, resolves to e and issues no RPC,
\* whatever else ran in between.
C4_PutThenGet_AnyInterleaving ==
  [][\A t \in DOMAIN tasks :
       GetAfter(t, "put")
         => (futs'[t] = Done(tasks[LastPd(t)].ent) /\ NoRpc)]_vars

\* C4 (amended): the same, when no get of that key resolved after the put
\* (the cache entry was last written by the put).
C4_PutThenGet ==
  [][\A t \in DOMAIN tasks :
       (GetAfter(t, "put") /\ LastBy(t) = "put")
         => (futs'[t] = Done(tasks[LastPd(t)].ent) /\ NoRpc)]_vars

\* A get was answered from the cache with the entity of a put whose key
\* the datastore allocated, and nothing was sent.
C4_Witness ==
  \E t, p \in DOMAIN tasks :
    /\ tasks[t].op = "get" /\ tasks[t].pc = "done" /\ tasks[t].aw = {}
    /\ tasks[t].seen = p
    /\ tasks[p].op = "put" /\ tasks[p].pc = "done" /\ p < t
    /\ tasks[p].key = NewKey
    /\ futs[t] = Done(Ent(AllocatedKey, 2))
    /\ nextFut = 5

\* C5 as claimed: a get called after delete(k) resolved, with no put or
\* delete of the key resolving in between, resolves to None and issues no
\* RPC, whether or not the key was cached when the delete resolved.
C5_DeleteThenGet_AnyKey ==
  [][\A t \in DOMAIN tasks :
       GetAfter(t, "delete")
         => (futs'[t] = Done(None) /\ NoRpc)]_vars

\* C5 (amended): the same, when the delete found the key in the cache and
\* its tombstone is still the entry (no get of that key resolved later).
C5_DeleteThenGet ==
  [][\A t \in DOMAIN tasks :
       (GetAfter(t, "delete") /\ LastBy(t) = "delete")
         => (futs'[t] = Done(None) /\ NoRpc)]_vars

\* A get fetched a live entity, a delete of the key wrote the tombstone, and
\* a later get was answered None from the cache.
C5_Witness ==
  \E g, d, t \in DOMAIN tasks :
    /\ g < d /\ d < t
    /\ tasks[g].op = "get" /\ futs[g] = Done(Ent("k1", 1))
    /\ tasks[d].op = "delete" /\ tasks[d].pc = "done" /\ tasks[d].key = "k1"
    /\ tasks[t].op = "get" /\ tasks[t].key = "k1" /\ tasks[t].aw = {}
    /\ tasks[t].seen = d
    /\ futs[t] = Done(None)

\* Delete task t, resumed after its batched delete completed, ends in this
\* step.
Deleted(t) ==
  /\ tasks[t].op = "delete"
  /\ tasks[t].pc = "got"
  /\ tasks'[t].pc = "done"

\* C16: the step in which a delete(k) ends replaces the cache entry of k by
\* a tombstone when k is in the cache, leaves the cache as it is when k is
\* not, and in both cases keeps the cached keys and the entries of all
\* other keys.
C16_DeleteFrame ==
  [][\A t \in DOMAIN tasks :
       Deleted(t) =>
         LET c == tasks[t].ctx
             k == tasks[t].key
         IN /\ DOMAIN cache'[c] = DOMAIN cache[c]
            /\ \A x \in DOMAIN cache[c] \ {k} : cache'[c][x] = cache[c][x]
            /\ k \in DOMAIN cache[c] => cache'[c][k] = None
            /\ \A d \in DOMAIN cache \ {c} : cache'[d] = cache[d]]_vars

\* A delete of a key that was not cached has ended: the key is still not
\* cached, and the live entry of the other key is still there.
C16_Witness ==
  \E t \in DOMAIN tasks :
    /\ tasks[t].op = "delete" /\ tasks[t].pc = "done" /\ tasks[t].key = "k1"
    /\ DOMAIN cache[Self] = {"k2"}
    /\ cache[Self]["k2"] # None

\* The get and the delete of k1 called on context c.
GetOf(c) == CHOOSE t \in DOMAIN tasks : tasks[t].ctx = c /\ tasks[t].op = "get"
DeleteOf(c) == CHOOSE t \in DOMAIN tasks : tasks[t].ctx = c /\ tasks[t].op = "delete"

\* C18: once a get(k1) and a delete(k1) called together on a Context with
\* k1 not cached have both ended, the cache entry of k1 is the tombstone
\* when the delete ended last and what the get fetched when the get ended
\* last (the delete then found no entry and wrote none); which of the two
\* it is depends on the order in which the two RPCs complete.
C18_ConflictOutcome ==
  \A c \in Contexts :
    (tasks[GetOf(c)].pc = "done" /\ tasks[DeleteOf(c)].pc = "done") =>
      /\ "k1" \in DOMAIN cache[c]
      /\ futs[DeleteOf(c)] = Done(None)
      /\ LastOp(lastop, c, "k1").by \in {"get", "delete"}
      /\ LastOp(lastop, c, "k1").by = "delete" => cache[c]["k1"] = None
      /\ LastOp(lastop, c, "k1").by = "get" => cache[c]["k1"] = futs[GetOf(c)].val

\* Two runs of the same two calls, the get resolving to the same entity in
\* both: one ends with the tombstone in the cache, the other with the
\* live entity.
C18_Witness ==
  /\ \A t \in DOMAIN tasks : tasks[t].pc = "done"
  /\ futs[GetOf(Self)] = Done(Ent("k1", 1))
  /\ futs[GetOf(1)] = Done(Ent("k1", 1))
  /\ cache[Self]["k1"] = None
  /\ cache[1]["k1"] = Ent("k1", 1)

-----------------------------------------------------------------------------
(* Properties of Context.transaction.                                      *)

Txn == 1

TxnDone == tasks[Txn].pc = "done"

\* The child context of the attempt whose commit succeeded.
Committed == tasks[tasks[Txn].sub].ctx

Live(c, k) == k \in DOMAIN cache[c] /\ cache[c][k] # None

\* C6 as claimed: once the transaction has resolved (its commit succeeded),
\* the merge has happened exactly once, and for every key written in the
\* committed child context the parent cache holds the entity last put or,
\* when the last write was a delete, no live entity.
C6_MergeReflectsWrites ==
  (TxnDone /\ futs[Txn].st = "done") =>
     /\ conn.merge = 1
     /\ \A k \in DOMAIN lastop[Committed] :
          LET w == lastop[Committed][k].pd
          IN /\ (w # 0 /\ tasks[w].op = "put")
                  => (k \in DOMAIN cache[Self] /\ cache[Self][k] = tasks[w].ent)
             /\ (w # 0 /\ tasks[w].op = "delete") => ~Live(Self, k)

\* C7: a step changes the parent's cache only if it is the step in which the
\* transaction task, resumed with a commit that reported success, merges
\* and returns.
C7_ParentCacheOnlyByMerge ==
  [][cache'[Self] # cache[Self] =>
       /\ tasks[Txn].pc = "committed"
       /\ Head(ready) = Txn
       /\ futs[CHOOSE f \in tasks[Txn].aw : TRUE] = Done(Bool(TRUE))
       /\ conn'.merge = conn.merge + 1
       /\ futs'[Txn].st = "done"]_vars

\* The child wrote its own cache, the commit was rejected or the callback
\* failed, the transaction has failed, and the parent's cache is untouched.
C7_Witness ==
  /\ TxnDone
  /\ futs[Txn].st = "failed"
  /\ conn.merge = 0
  /\ \E c \in DOMAIN cache : c # Self /\ cache[c] # EmptyDict
  /\ cache[Self] = EmptyDict
  /\ Len(conn.commit) = 1

\* The callbacks that failed.
FailedCallbacks ==
  {t \in DOMAIN tasks : tasks[t].op = "callback" /\ futs[t].st = "failed"}

\* C8: when the callback of an attempt has failed, no commit is issued on
\* that attempt's connection, at most one rollback is, no later transaction
\* is begun, and when transaction() ends it has issued that one rollback
\* and fails with the callback's error.
C8_CallbackFailure ==
  \A t \in FailedCallbacks :
    LET tc == tasks[t].ctx
    IN /\ Count(tc, conn.commit) = 0
       /\ Count(tc, conn.rollback) <= 1
       /\ conn.begin = tc
       /\ TxnDone => (conn.rollback = <<tc>> /\ futs[Txn] = futs[t])

\* The second attempt's callback failed after a rejected commit, and the
\* transaction has ended.
C8_Witness ==
  /\ TxnDone
  /\ conn.begin = 2
  /\ conn.commit = <<1>>
  /\ conn.rollback = <<2>>
  /\ futs[Txn] = Failed(CallbackError)

\* A batcher is fully flushed.
Flushed(c, kind) ==
  todo[Batcher(c, kind)] = <<>> /\ running[Batcher(c, kind)] = {}

\* C12 as claimed: in the step in which transaction() issues its first
\* begin-transaction, the get, put and delete batchers of the calling
\* Context each have an empty _todo and an empty _running.
C12_FlushedAtFirstBegin ==
  [][(conn.begin = 0 /\ conn'.begin = 1)
       => \A kind \in Kinds : Flushed(Self, kind)]_vars

\* C14: in the step in which the commit or the rollback of an attempt is
\* issued, the get, put and delete batchers of that attempt's child Context
\* each have an empty _todo and an empty _running, and no batched RPC of
\* the child is in flight.
C14_ChildFlushedBeforeConclusion ==
  [][\A tc \in DOMAIN cache :
       (Count(tc, conn'.commit) + Count(tc, conn'.rollback)
          > Count(tc, conn.commit) + Count(tc, conn.rollback))
         => /\ \A kind \in Kinds : Flushed(tc, kind)
            /\ \A r \in rpcs : r.b[1] # tc]_vars

\* The callback called put and delete on the child without waiting for
\* them and failed; both calls have completed and the rollback is issued.
C14_Witness ==
  /\ conn.rollback = <<1>>
  /\ \E p, d \in DOMAIN tasks :
       /\ tasks[p].ctx = 1 /\ tasks[p].op = "put" /\ tasks[p].pc = "done"
       /\ tasks[d].ctx = 1 /\ tasks[d].op = "delete" /\ tasks[d].pc = "done"
       /\ tasks[tasks[Txn].sub].i = 2
       /\ tasks[tasks[Txn].sub].aw = {}

\* The get_or_insert task and the plain get it calls first.
Insert == 1
PlainGet == 2

\* C13: when the plain get of get_or_insert has found an entity, no
\* transaction is begun and that entity is the result; a transaction is
\* begun only after the plain get found nothing; in each attempt the callback
\* calls put on the child only after its get on the child found nothing, and
\* then returns the new entity, and otherwise returns the entity found;
\* a result of get_or_insert is never None.
C13_GetOrInsert ==
  LET found == /\ PlainGet \in DOMAIN futs
               /\ futs[PlainGet].st = "done"
               /\ futs[PlainGet].val # None
  IN /\ found => /\ conn.begin = 0
                 /\ tasks[Insert].pc = "done" => futs[Insert] = futs[PlainGet]
     /\ conn.begin > 0 => futs[PlainGet] = Done(None)
     /\ \A cb \in DOMAIN tasks :
          tasks[cb].op = "txn" =>
            LET puts == {p \in DOMAIN tasks :
                           tasks[p].ctx = tasks[cb].ctx /\ tasks[p].op = "put"}
                gets == {x \in DOMAIN tasks :
                           tasks[x].ctx = tasks[cb].ctx /\ tasks[x].op = "get"}
            IN /\ puts # {} => \A x \in gets : futs[x] = Done(None)
               /\ Cardinality(gets) <= 1 /\ Cardinality(puts) <= 1
               /\ \A p \in puts : tasks[p].ent = tasks[Insert].ent
               /\ futs[cb].st = "done" =>
                    \E x \in gets :
                      futs[cb].val = IF futs[x].val = None
                                       THEN tasks[Insert].ent ELSE futs[x].val
     /\ futs[Insert].st = "done" => futs[Insert].val # None

\* The plain get found nothing, the first commit was rejected, the get of
\* the second attempt found an entity inserted meanwhile: it is the result
\* and the second attempt put nothing.
C13_Witness ==
  /\ tasks[Insert].pc = "done"
  /\ futs[PlainGet] = Done(None)
  /\ futs[Insert] = Done(Ent("k1", 1))
  /\ conn.commit = <<1, 2>>
  /\ \E p \in DOMAIN tasks : tasks[p].op = "put" /\ tasks[p].ctx = 1
  /\ ~ \E p \in DOMAIN tasks : tasks[p].op = "put" /\ tasks[p].ctx = 2

\* C20 as claimed: every live entry of the cache of a Context whose policy
\* was set is a (key, entity) pair the policy accepts.
C20_PolicyRespected ==
  \A c \in DOMAIN cache :
    policy[c] # "None" =>
      \A k \in DOMAIN cache[c] :
        cache[c][k] # None => PolicyAccepts(policy[c], k, cache[c][k])

\* C9: transaction(callback, retry=r) never begins more than 1 + max(0, r)
\* attempts; when it fails with TransactionFailedError it has made exactly
\* that many attempts (begin, callback, commit), 4 for r = 3 and 1 for
\* r <= 0; when it has resolved, the attempt whose commit succeeded is the
\* last one begun.
C9_RetryBound ==
  LET r == tasks[Txn].retry
      n == 1 + (IF r > 0 THEN r ELSE 0)
  IN /\ conn.begin <= n
     /\ (r = DefaultRetry => n = 4) /\ (r <= 0 => n = 1)
     /\ (TxnDone /\ futs[Txn] = Failed(TransactionFailedError))
          => (conn.begin = n /\ conn.callback = n /\ Len(conn.commit) = n
              /\ conn.rollback = <<>>)
     /\ (TxnDone /\ futs[Txn].st = "done")
          => (conn.callback = conn.begin /\ Len(conn.commit) = conn.begin
              /\ conn.commit[conn.begin] = conn.begin /\ conn.merge = 1)

\* retry=3: four commits were rejected and the transaction has failed.
C9_Witness ==
  /\ TxnDone
  /\ tasks[Txn].retry = DefaultRetry
  /\ conn.commit = <<1, 2, 3, 4>>
  /\ futs[Txn] = Failed(TransactionFailedError)

-----------------------------------------------------------------------------
(* Properties of Context.map_query.                                        *)

Driver == 1

\* The number of entities the callback was called with.
Calls == Cardinality({i \in 1..Len(mq.visited) : mq.visited[i].called})

\* C10: for every result entity map_query has visited, when its key was a
\* tombstone in the cache the callback was not called and the count stayed
\* as it was, when its key had a live cached value the callback was called
\* with that cached value, and otherwise with the queried entity; the
\* running count is the number of callback calls, and the driver task
\* resolves with it.
C10_QueryReconciliation ==
  /\ \A i \in 1..Len(mq.visited) :
       LET v == mq.visited[i]
           after == IF i < Len(mq.visited) THEN mq.visited[i + 1].before
                    ELSE tasks[Driver].i
       IN /\ v.was = None => (~v.called /\ after = v.before)
          /\ v.was \notin {None, Absent} => (v.called /\ v.got = v.was)
          /\ v.was = Absent => (v.called /\ v.got = v.fresh)
          /\ v.called => after = v.before + 1
  /\ tasks[Driver].i = Calls
  /\ futs[Driver].st = "done" => futs[Driver].val = CountOf(Calls)

\* The query returned a tombstoned key and a key whose cached value
\* differs; the driver has resolved with a count of 1.
C10_Witness ==
  /\ futs[Driver] = Done(CountOf(1))
  /\ \E i \in 1..Len(mq.visited) : mq.visited[i].was = None
  /\ \E i \in 1..Len(mq.visited) :
       /\ mq.visited[i].was \notin {None, Absent}
       /\ mq.visited[i].was # mq.visited[i].fresh

====
